---- MODULE Spec2Model ----
(***************************************************************************)
(* State-machine model of the identity / access-control backend:           *)
(* users, roles and permissions, the OTP engine, bearer tokens and the     *)
(* token blacklist.  The persistent store is the only shared state; every  *)
(* repository method that calls db.commit() is one atomic write.           *)
(***************************************************************************)
EXTENDS Integers, FiniteSets, Sequences, TLC

(***************************************************************************)
(* Bounds of the model.  OTP_EXPIRE_MINUTES is a setting (Settings reads   *)
(* it from the environment); the model runs it in clock ticks.             *)
(***************************************************************************)
MaxTime == 3
MaxOtps == 2
MaxUsers == 2
OTP_EXPIRE_MINUTES == 2
MaxConcUsers == 3
MaxRoleId == 4
MaxPermissionId == 3

(***************************************************************************)
(* Program constants.                                                      *)
(***************************************************************************)
ImportTime == 0
DefaultRoleId == 3
SuperAdminRoleId == 1

REGISTER == "register"
RESET_PASSWORD == "reset_password"
OTPType == {REGISTER, RESET_PASSWORD}

accepted_email_domains == {"global.ntt", "ntt.com", "nttdata.com"}

(***************************************************************************)
(* Input domains.                                                          *)
(***************************************************************************)
AdminEmail == [local |-> "admin", domain |-> "ntt.com"]
EmailA == [local |-> "a", domain |-> "ntt.com"]
EmailX == [local |-> "x", domain |-> "evil.org"]
Emails == {AdminEmail, EmailA, EmailX}
OtpEmails == {EmailA}

Codes == {"000000", "000001"}

PwGood == [text |-> "Passw0rd", len |-> 8, digit |-> TRUE, upper |-> TRUE]
PwWeak == [text |-> "weak", len |-> 4, digit |-> FALSE, upper |-> FALSE]
Passwords == {PwGood, PwWeak}

\* decimal strings of the user ids, as str() and int() convert them
Digits == <<"1", "2", "3">>

\* bearer tokens: the claims of a JWT and whether SECRET_KEY signed it
NoExp == -1
NoToken == [sub |-> "", exp |-> NoExp, signed |-> FALSE]
TokenExp == 2
Tokens ==
    {[sub |-> "1", exp |-> TokenExp, signed |-> TRUE],
     [sub |-> "2", exp |-> TokenExp, signed |-> TRUE],
     [sub |-> "3", exp |-> TokenExp, signed |-> TRUE],
     [sub |-> "1", exp |-> TokenExp, signed |-> FALSE],
     [sub |-> "x", exp |-> TokenExp, signed |-> TRUE],
     [sub |-> "", exp |-> TokenExp, signed |-> TRUE],
     [sub |-> "1", exp |-> NoExp, signed |-> TRUE]}

ScopeSets == SUBSET {"manage_roles", "view_roles"}

NoId == 0
NoEmail == [local |-> "", domain |-> ""]

Workers == {"w1", "w2"}
NoPassword == [text |-> "", len |-> 0, digit |-> FALSE, upper |-> FALSE]
Idle == [pc |-> "idle", email |-> NoEmail, type |-> "", user_id |-> NoId,
         code |-> "", otp_id |-> NoId, token |-> NoToken,
         password |-> NoPassword]

VARIABLES
    now,               \* the UTC clock, in minutes
    users,             \* table users
    roles,             \* table roles
    permissions,       \* table permissions
    permission_roles,  \* table permission_roles
    otps,              \* table otps
    nextOtpId,         \* autoincrement of otps.id
    blacklist,         \* table token_blacklist
    task,              \* the position of each worker inside its request
    resp               \* the response of the last request

vars == <<now, users, roles, permissions, permission_roles, otps, nextOtpId,
          blacklist, task, resp>>

roleTables == <<roles, permissions, permission_roles>>

(***************************************************************************)
(* Credential helpers.                                                     *)
(***************************************************************************)
get_password_hash(password) == <<"sha256_crypt", password.text>>

verify_password(plain_password, hashed_password) ==
    hashed_password = get_password_hash(plain_password)

validate_email_domain(email) == email.domain \in accepted_email_domains

\* a complexity check that every password passes
validate_password_complexity_any(password) == TRUE

validate_password_complexity(password) ==
    password.len >= 8 /\ password.digit /\ password.upper

(***************************************************************************)
(* User repository.                                                        *)
(***************************************************************************)
\* a lookup by email that never finds a row
UsersByEmail_none(email) == {}

UsersByEmail(email) == {u \in users : u.email = email}

UsersById(user_id) == {u \in users : u.id = user_id}

NextUserId == Cardinality(users) + 1

(***************************************************************************)
(* OTP repository queries.                                                 *)
(***************************************************************************)
\* a lookup of a valid OTP that does not compare the email
get_valid_otp_any_email(email, code, type) ==
    {o \in otps : /\ o.code = code
                  /\ o.type = type
                  /\ o.is_used = 0
                  /\ o.expires_at > now}

get_valid_otp(email, code, type) ==
    {o \in otps : /\ o.email = email
                  /\ o.code = code
                  /\ o.type = type
                  /\ o.is_used = 0
                  /\ o.expires_at > now}

\* order_by(desc(created_at)).first(): any row with the greatest created_at
get_latest_otp(email, type) ==
    LET rows == {o \in otps : o.email = email /\ o.type = type}
    IN {o \in rows : \A p \in rows : p.created_at <= o.created_at}

\* an invalidation that flips the flag of every OTP of the pair
invalidate_previous_otps_flipping(email, type) ==
    {IF o.email = email /\ o.type = type
        THEN [o EXCEPT !.is_used = 1 - o.is_used] ELSE o : o \in otps}

\* a create_otp_and_send that leaves the earlier OTPs of the pair alone
invalidate_previous_otps_skipped(email, type) == otps

\* an invalidation that marks the unused OTPs of every email and type
invalidate_previous_otps_all(email, type) ==
    {[o EXCEPT !.is_used = 1] : o \in otps}

invalidate_previous_otps(email, type) ==
    {IF o.email = email /\ o.type = type /\ o.is_used = 0
        THEN [o EXCEPT !.is_used = 1] ELSE o : o \in otps}

\* a mark_as_used that never writes the flag
mark_as_used_unset(table, otp) == table

mark_as_used(table, otp) ==
    {IF o.id = otp.id THEN [o EXCEPT !.is_used = 1] ELSE o : o \in table}

delete_expired_otps == {o \in otps : ~(o.expires_at < now)}

\* an OTP row that is stored already used
NewOtp_used(id, user_id, email, code, type) ==
    [id |-> id, user_id |-> user_id, email |-> email, code |-> code,
     type |-> type, is_used |-> 1,
     expires_at |-> now + OTP_EXPIRE_MINUTES,
     created_at |-> ImportTime]

NewOtp(id, user_id, email, code, type) ==
    [id |-> id, user_id |-> user_id, email |-> email, code |-> code,
     type |-> type, is_used |-> 0,
     expires_at |-> now + OTP_EXPIRE_MINUTES,
     created_at |-> ImportTime]

(***************************************************************************)
(* Responses.  resp holds the request that was served last and its result  *)
(* (HTTP status, detail and the fields of the response body).              *)
(***************************************************************************)
NoResp ==
    [op |-> "none", email |-> NoEmail, code |-> "", type |-> "",
     token |-> NoToken, scopes |-> {}, status |-> 0, detail |-> "",
     valid |-> FALSE, otp_id |-> NoId, user_id |-> NoId, name |-> "",
     id |-> NoId]

OtpResp(op, email, code, type, status, detail, valid, otp_id) ==
    [NoResp EXCEPT !.op = op, !.email = email, !.code = code, !.type = type,
                   !.status = status, !.detail = detail, !.valid = valid,
                   !.otp_id = otp_id]

UserResp(op, email, status, detail, user_id) ==
    [NoResp EXCEPT !.op = op, !.email = email, !.status = status,
                   !.detail = detail, !.user_id = user_id]

(***************************************************************************)
(* Initial state: the database after init_db.                              *)
(***************************************************************************)
Init ==
    /\ now = 0
    /\ users = {[id |-> 1, email |-> AdminEmail,
                 hashed_password |-> get_password_hash(PwGood),
                 is_verified |-> TRUE, is_active |-> TRUE,
                 role_id |-> SuperAdminRoleId, last_active |-> 0]}
    /\ roles = {[id |-> 1, role_name |-> "Super Admin"],
                [id |-> 3, role_name |-> "User"]}
    /\ permissions = {[id |-> 1, permission_name |-> "manage_roles"],
                      [id |-> 2, permission_name |-> "view_roles"]}
    /\ permission_roles = {[role_id |-> 1, permission_id |-> 1],
                           [role_id |-> 1, permission_id |-> 2],
                           [role_id |-> 3, permission_id |-> 2]}
    /\ otps = {}
    /\ nextOtpId = 1
    /\ blacklist = {}
    /\ task = [w \in Workers |-> Idle]
    /\ resp = NoResp

(***************************************************************************)
(* The clock.                                                              *)
(***************************************************************************)
Tick ==
    /\ now < MaxTime
    /\ now' = now + 1
    /\ UNCHANGED <<users, roleTables, otps, nextOtpId, blacklist, task, resp>>

(***************************************************************************)
(* POST /auth/register: UserService.create_user for a UserRegister input.  *)
(***************************************************************************)
create_user(email, password, password_confirm) ==
    /\ IF ~validate_email_domain(email)
       THEN /\ resp' = UserResp("register", email, 400,
                                "Email domain not allowed", NoId)
            /\ UNCHANGED users
       ELSE IF ~validate_password_complexity(password)
       THEN /\ resp' = UserResp("register", email, 400,
                        "Password does not meet complexity requirements", NoId)
            /\ UNCHANGED users
       ELSE IF password # password_confirm
       THEN /\ resp' = UserResp("register", email, 400,
                        "Password and password confirmation do not match", NoId)
            /\ UNCHANGED users
       ELSE IF UsersByEmail(email) # {}
       THEN /\ resp' = UserResp("register", email, 400,
                                "Email already registered", NoId)
            /\ UNCHANGED users
       ELSE /\ Cardinality(users) < MaxUsers
            /\ users' = users \cup
                   {[id |-> NextUserId, email |-> email,
                     hashed_password |-> get_password_hash(password),
                     is_verified |-> FALSE, is_active |-> TRUE,
                     role_id |-> DefaultRoleId, last_active |-> now]}
            /\ resp' = UserResp("register", email, 201, "", NextUserId)
    /\ UNCHANGED <<now, roleTables, otps, nextOtpId, blacklist, task>>

(***************************************************************************)
(* POST /otp/request: OTPService.create_otp_and_send, run to completion.   *)
(* invalidate_previous_otps and create each commit on their own.           *)
(***************************************************************************)
\* the id the request stores in otps.user_id; a 404 of get_user_by_email is
\* swallowed by the except clause and leaves user_id at None
OtpUserId(email) ==
    IF UsersByEmail(email) = {} THEN NoId
    ELSE (CHOOSE u \in UsersByEmail(email) : TRUE).id

AlreadyVerified(email, type) ==
    /\ type = REGISTER
    /\ \E u \in UsersByEmail(email) : u.is_verified

\* the result of the email step: send_otp_email returns the SMTP outcome;
\* send_reset_password_email is declared without self and raises TypeError
EmailOutcomes(type) ==
    IF type = REGISTER
    THEN {[status |-> 200, detail |-> ""],
          [status |-> 500, detail |-> "Failed to send OTP email"]}
    ELSE {[status |-> 500, detail |-> "Failed to request OTP code"]}

create_otp_and_send(email, type) ==
    /\ nextOtpId <= MaxOtps
    /\ IF AlreadyVerified(email, type)
       THEN /\ resp' = OtpResp("create_otp_and_send", email, "", type, 400,
                               "Email already verified", FALSE, NoId)
            /\ UNCHANGED <<otps, nextOtpId>>
       ELSE \/ \* OTP.generate_code / get_expiry_time raises
               /\ otps' = invalidate_previous_otps(email, type)
               /\ resp' = OtpResp("create_otp_and_send", email, "", type, 500,
                                  "Failed to generate OTP code", FALSE, NoId)
               /\ UNCHANGED nextOtpId
            \/ \E code \in Codes, out \in EmailOutcomes(type) :
               /\ otps' = invalidate_previous_otps(email, type) \cup
                      {NewOtp(nextOtpId, OtpUserId(email), email, code, type)}
               /\ nextOtpId' = nextOtpId + 1
               /\ resp' = OtpResp("create_otp_and_send", email, code, type,
                                  out.status, out.detail, FALSE, nextOtpId)
    /\ UNCHANGED <<now, users, roleTables, blacklist, task>>

(***************************************************************************)
(* POST /otp/verify: OTPService.verify_otp.                                *)
(***************************************************************************)
\* latest_otp.expires_at < get_current_utc_time(): the column is a DateTime
\* without timezone and the clock value is timezone-aware.  A driver that
\* returns the column as a naive datetime makes the comparison raise
\* TypeError (the route answers 500), otherwise the two are ordered.
ExpiryCheckOutcomes(latest_otp) ==
    {[status |-> 500, detail |-> "Failed to verify OTP code"],
     IF latest_otp.expires_at < now
        THEN [status |-> 400, detail |-> "OTP code expired"]
        ELSE [status |-> 400, detail |-> "Invalid OTP code"]}

\* the answers verify_otp can give when get_valid_otp found nothing
VerifyFailures(email, type) ==
    IF get_latest_otp(email, type) = {}
    THEN {[status |-> 400, detail |-> "Invalid OTP code"]}
    ELSE UNION {IF latest_otp.is_used = 1
                   THEN {[status |-> 400, detail |-> "OTP code already used"]}
                   ELSE ExpiryCheckOutcomes(latest_otp)
                : latest_otp \in get_latest_otp(email, type)}

\* self.user_service.update_user(...) is a coroutine function called without
\* await: the coroutine object is dropped and the users table is not written
VerifiedUsers(table, email) == table

\* a verify_otp whose failure path burns the unused OTPs of the pair
verify_otp_burning(email, code, type) ==
    /\ IF get_valid_otp(email, code, type) = {}
       THEN /\ \E out \in VerifyFailures(email, type) :
                  resp' = OtpResp("verify_otp", email, code, type, out.status,
                                  out.detail, FALSE, NoId)
            /\ otps' = invalidate_previous_otps(email, type)
            /\ UNCHANGED users
       ELSE \E otp \in get_valid_otp(email, code, type) :
               /\ users' = users
               /\ otps' = mark_as_used(otps, otp)
               /\ resp' = OtpResp("verify_otp", email, code, type, 200,
                                  "OTP code verified successfully", TRUE,
                                  otp.id)
    /\ UNCHANGED <<now, roleTables, nextOtpId, blacklist, task>>

verify_otp(email, code, type) ==
    /\ IF get_valid_otp(email, code, type) = {}
       THEN /\ \E out \in VerifyFailures(email, type) :
                  resp' = OtpResp("verify_otp", email, code, type, out.status,
                                  out.detail, FALSE, NoId)
            /\ UNCHANGED <<users, otps>>
       ELSE \E otp \in get_valid_otp(email, code, type) :
               /\ users' = IF type = REGISTER THEN VerifiedUsers(users, email)
                                              ELSE users
               /\ otps' = mark_as_used(otps, otp)
               /\ resp' = OtpResp("verify_otp", email, code, type, 200,
                                  "OTP code verified successfully", TRUE,
                                  otp.id)
    /\ UNCHANGED <<now, roleTables, nextOtpId, blacklist, task>>

(***************************************************************************)
(* OTPService.cleanup_expired_otps.                                        *)
(***************************************************************************)
cleanup_expired_otps ==
    /\ otps' = delete_expired_otps
    /\ resp' = [NoResp EXCEPT !.op = "cleanup_expired_otps", !.status = 200]
    /\ UNCHANGED <<now, users, roleTables, nextOtpId, blacklist, task>>

(***************************************************************************)
(* The OTP engine with requests served one at a time.                      *)
(***************************************************************************)
Register ==
    \E email \in Emails, password \in Passwords, password_confirm \in Passwords :
        create_user(email, password, password_confirm)

CreateAndSend ==
    \E email \in OtpEmails, type \in OTPType : create_otp_and_send(email, type)

Verify ==
    \E email \in OtpEmails, code \in Codes, type \in OTPType :
        verify_otp(email, code, type)

NextOtp == Tick \/ Register \/ CreateAndSend \/ Verify \/ cleanup_expired_otps

SpecOtp == Init /\ [][NextOtp]_vars

(***************************************************************************)
(* Tokens: create_access_token, jwt.decode and get_current_user.           *)
(***************************************************************************)
\* str(user.id)
StrOfId(user_id) == Digits[user_id]

\* int(user_id_str); NoId stands for the ValueError
IntOfStr(str) ==
    IF \E i \in DOMAIN Digits : Digits[i] = str
    THEN CHOOSE i \in DOMAIN Digits : Digits[i] = str
    ELSE NoId

\* create_access_token: both branches evaluate datetime.timezone on the
\* class datetime (from datetime import datetime), which raises
\* AttributeError before a token is encoded
create_access_token(user_id) == [raised |-> TRUE, token |-> NoToken]

\* jwt.decode: the signature must verify and an exp claim must not be past
\* a decode that does not verify the signature
jwt_decode_ok_unsigned(token) == token.exp # NoExp => ~(token.exp < now)

\* a decode that does not validate the exp claim
jwt_decode_ok_any_expiry(token) == token.signed

jwt_decode_ok(token) ==
    /\ token.signed
    /\ token.exp # NoExp => ~(token.exp < now)

get_role(role_id) == {r \in roles : r.id = role_id}

\* [p.permission_name for p in user.role.permissions], [] without a role
user_permissions(user) ==
    IF get_role(user.role_id) = {} THEN {}
    ELSE {p.permission_name : p \in
            {q \in permissions :
                [role_id |-> user.role_id, permission_id |-> q.id]
                    \in permission_roles}}

\* the for/else over security_scopes.scopes that demands every scope
has_required_scope_all(user, scopes) ==
    \A scope \in scopes : scope \in user_permissions(user)

\* the for/else over security_scopes.scopes: one match is enough
has_required_scope(user, scopes) ==
    \E scope \in scopes : scope \in user_permissions(user)

\* a lookup in the blacklist that never finds the token
is_blacklisted_never(token) == FALSE

\* TokenBlacklistRepository.is_blacklisted
is_blacklisted(token) == \E b \in blacklist : b.token = token

Unauthorized ==
    [status |-> 401, detail |-> "Could not validate credentials",
     user_id |-> NoId]

get_current_user(token, scopes) ==
    IF ~jwt_decode_ok(token) THEN Unauthorized
    ELSE IF token.sub = "" THEN Unauthorized
    ELSE IF IntOfStr(token.sub) = NoId THEN Unauthorized
    ELSE IF UsersById(IntOfStr(token.sub)) = {} THEN Unauthorized
    ELSE LET user == CHOOSE u \in UsersById(IntOfStr(token.sub)) : TRUE
         IN IF scopes # {} /\ ~has_required_scope(user, scopes)
            THEN [status |-> 403, detail |-> "Not enough permissions",
                  user_id |-> NoId]
            ELSE [status |-> 200, detail |-> "", user_id |-> user.id]

AuthResp(op, token, scopes, status, detail, user_id) ==
    [NoResp EXCEPT !.op = op, !.token = token, !.scopes = scopes,
                   !.status = status, !.detail = detail, !.user_id = user_id]

(***************************************************************************)
(* A request to a route that depends on get_current_user with the given    *)
(* security scopes (GET /me/ has none, the role routes have one).          *)
(***************************************************************************)
authenticated_request(token, scopes) ==
    /\ LET auth == get_current_user(token, scopes)
       IN resp' = AuthResp("get_current_user", token, scopes, auth.status,
                           auth.detail, auth.user_id)
    /\ UNCHANGED <<now, users, roleTables, otps, nextOtpId, blacklist, task>>

(***************************************************************************)
(* POST /auth/login: AuthService.authenticate_user, then the token.        *)
(***************************************************************************)
\* authenticate_user calls the coroutine function update_user(last_active)
\* without await, so the users table is not written by a login
login(email, password) ==
    /\ IF UsersByEmail(email) = {}
       THEN resp' = UserResp("login", email, 404, "User not found", NoId)
       ELSE LET user == CHOOSE u \in UsersByEmail(email) : TRUE
                issued == create_access_token(user.id)
            IN IF ~verify_password(password, user.hashed_password)
               THEN resp' = UserResp("login", email, 401,
                                     "Incorrect password", NoId)
               ELSE IF issued.raised
               THEN resp' = UserResp("login", email, 500,
                                     "Internal Server Error", user.id)
               ELSE resp' = [UserResp("login", email, 200, "", user.id)
                                EXCEPT !.token = issued.token]
    /\ UNCHANGED <<now, users, roleTables, otps, nextOtpId, blacklist, task>>

(***************************************************************************)
(* POST /auth/logout: get_current_user, AuthService.logout_user and        *)
(* TokenBlacklistService.blacklist_token.                                  *)
(***************************************************************************)
NextBlacklistId ==
    IF blacklist = {} THEN 1
    ELSE 1 + (CHOOSE i \in {b.id : b \in blacklist} :
                 \A b \in blacklist : b.id <= i)

add_to_blacklist(token, expires_at) ==
    blacklist \cup {[id |-> NextBlacklistId, token |-> token,
                     expires_at |-> expires_at]}

logout(token) ==
    /\ LET auth == get_current_user(token, {})
       IN IF auth.status # 200
          THEN /\ resp' = AuthResp("logout", token, {}, auth.status,
                                   auth.detail, NoId)
               /\ UNCHANGED blacklist
          ELSE IF ~jwt_decode_ok(token)
          THEN /\ resp' = AuthResp("logout", token, {}, 400, "Invalid token",
                                   auth.user_id)
               /\ UNCHANGED blacklist
          ELSE IF token.exp = NoExp
          THEN /\ resp' = AuthResp("logout", token, {}, 400,
                                   "Invalid token: no expiration",
                                   auth.user_id)
               /\ UNCHANGED blacklist
          ELSE /\ blacklist' = IF is_blacklisted(token) THEN blacklist
                               ELSE add_to_blacklist(token, token.exp)
               /\ resp' = AuthResp("logout", token, {}, 200,
                                   "Successfully logged out", auth.user_id)
    /\ UNCHANGED <<now, users, roleTables, otps, nextOtpId, task>>

(***************************************************************************)
(* TokenBlacklistService.cleanup_expired_tokens.                           *)
(***************************************************************************)
\* a cleanup that empties the blacklist
cleanup_expired_tokens_all ==
    /\ blacklist' = {}
    /\ resp' = [NoResp EXCEPT !.op = "cleanup_expired_tokens",
                              !.status = 200]
    /\ UNCHANGED <<now, users, roleTables, otps, nextOtpId, task>>

cleanup_expired_tokens ==
    /\ blacklist' = {b \in blacklist : ~(b.expires_at < now)}
    /\ resp' = [NoResp EXCEPT !.op = "cleanup_expired_tokens",
                              !.status = 200]
    /\ UNCHANGED <<now, users, roleTables, otps, nextOtpId, task>>

(***************************************************************************)
(* DELETE /roles/{role_id}/permissions/{permission_id} and                 *)
(* DELETE /roles/{role_id}; both routes require manage_roles.              *)
(***************************************************************************)
remove_permission_from_role(token, role_id, permission_id) ==
    /\ LET auth == get_current_user(token, {"manage_roles"})
       IN IF auth.status # 200
          THEN /\ resp' = AuthResp("remove_permission_from_role", token,
                                   {"manage_roles"}, auth.status, auth.detail,
                                   NoId)
               /\ UNCHANGED permission_roles
          ELSE IF get_role(role_id) = {}
          THEN /\ resp' = AuthResp("remove_permission_from_role", token,
                                   {"manage_roles"}, 404, "Role not found",
                                   auth.user_id)
               /\ UNCHANGED permission_roles
          ELSE /\ permission_roles' = permission_roles \
                      {[role_id |-> role_id, permission_id |-> permission_id]}
               /\ resp' = AuthResp("remove_permission_from_role", token,
                                   {"manage_roles"}, 200, "", auth.user_id)
    /\ UNCHANGED <<now, users, roles, permissions, otps, nextOtpId, blacklist,
                   task>>

\* PermissionRepository.get_permission
get_permission(permission_id) == {q \in permissions : q.id = permission_id}

\* POST /roles/{role_id}/permissions/{permission_id}.  For a pair that is not
\* yet assigned the repository builds PermissionRole(roles_id=...): the mapped
\* column is role_id, the declarative constructor raises TypeError before
\* anything is added to the session, and the route answers 500.
add_permission_to_role(token, role_id, permission_id) ==
    /\ LET auth == get_current_user(token, {"manage_roles"})
       IN IF auth.status # 200
          THEN resp' = AuthResp("add_permission_to_role", token,
                                {"manage_roles"}, auth.status, auth.detail,
                                NoId)
          ELSE IF get_permission(permission_id) = {}
          THEN resp' = AuthResp("add_permission_to_role", token,
                                {"manage_roles"}, 404, "Permission not found",
                                auth.user_id)
          ELSE IF get_role(role_id) = {}
          THEN resp' = AuthResp("add_permission_to_role", token,
                                {"manage_roles"}, 404, "Role not found",
                                auth.user_id)
          ELSE IF [role_id |-> role_id, permission_id |-> permission_id]
                      \in permission_roles
          THEN resp' = AuthResp("add_permission_to_role", token,
                                {"manage_roles"}, 200, "", auth.user_id)
          ELSE resp' = AuthResp("add_permission_to_role", token,
                                {"manage_roles"}, 500, "Internal Server Error",
                                auth.user_id)
    /\ UNCHANGED <<now, users, roleTables, otps, nextOtpId, blacklist, task>>

\* db.delete(db_role): the session empties the role's rows of the secondary
\* table permission_roles and, Role.users having no delete cascade, sets
\* role_id of the users of the role to NULL
delete_role(token, role_id) ==
    /\ LET auth == get_current_user(token, {"manage_roles"})
       IN IF auth.status # 200
          THEN /\ resp' = AuthResp("delete_role", token, {"manage_roles"},
                                   auth.status, auth.detail, NoId)
               /\ UNCHANGED <<users, roles, permission_roles>>
          ELSE IF get_role(role_id) = {}
          THEN /\ resp' = AuthResp("delete_role", token, {"manage_roles"},
                                   404, "Role not found", auth.user_id)
               /\ UNCHANGED <<users, roles, permission_roles>>
          ELSE /\ roles' = roles \ get_role(role_id)
               /\ permission_roles' =
                      {pr \in permission_roles : pr.role_id # role_id}
               /\ users' = {IF u.role_id = role_id
                               THEN [u EXCEPT !.role_id = NoId] ELSE u
                            : u \in users}
               /\ resp' = AuthResp("delete_role", token, {"manage_roles"},
                                   204, "", auth.user_id)
    /\ UNCHANGED <<now, permissions, otps, nextOtpId, blacklist, task>>

(***************************************************************************)
(* UserService.check_user_permission.                                      *)
(***************************************************************************)
PermissionNames == {"manage_roles", "view_roles", "admin_access"}

\* a check_user_permission that only asks whether the user has a role
check_user_permission_any(user_id, permission_name) ==
    \E user \in UsersById(user_id) : get_role(user.role_id) # {}

check_user_permission(user_id, permission_name) ==
    \E user \in UsersById(user_id) :
        /\ get_role(user.role_id) # {}
        /\ permission_name \in user_permissions(user)

check_permission_call(user_id, permission_name) ==
    /\ resp' = [NoResp EXCEPT
                   !.op = "check_user_permission", !.user_id = user_id,
                   !.detail = permission_name, !.status = 200,
                   !.valid = check_user_permission(user_id, permission_name)]
    /\ UNCHANGED <<now, users, roleTables, otps, nextOtpId, blacklist, task>>

(***************************************************************************)
(* Authentication and authorization with requests served one at a time.    *)
(***************************************************************************)
RegisterGood == create_user(EmailA, PwGood, PwGood)

AuthenticatedRequest ==
    \E token \in Tokens, scopes \in ScopeSets :
        authenticated_request(token, scopes)

Login == \E email \in Emails, password \in Passwords : login(email, password)

Logout == \E token \in Tokens : logout(token)

RemovePermissionFromRole ==
    \E token \in Tokens, role_id \in {1, 3}, permission_id \in {1, 2} :
        remove_permission_from_role(token, role_id, permission_id)

DeleteRole ==
    \E token \in Tokens, role_id \in {1, 3} : delete_role(token, role_id)

CheckUserPermission ==
    \E user_id \in 1..3, permission_name \in PermissionNames :
        check_permission_call(user_id, permission_name)

AddPermissionToRole ==
    \E token \in Tokens, role_id \in {1, 3}, permission_id \in {1, 2, 3} :
        add_permission_to_role(token, role_id, permission_id)

NextAuth ==
    \/ Tick
    \/ RegisterGood
    \/ AuthenticatedRequest
    \/ Login
    \/ Logout
    \/ cleanup_expired_tokens
    \/ RemovePermissionFromRole
    \/ DeleteRole
    \/ AddPermissionToRole
    \/ CheckUserPermission

SpecAuth == Init /\ [][NextAuth]_vars

(***************************************************************************)
(* DELETE /me/: get_current_user, then UserRepository.deactivate_user.     *)
(***************************************************************************)
deactivate_user(user_id) ==
    {IF u.id = user_id THEN [u EXCEPT !.is_active = FALSE] ELSE u : u \in users}

deactivate_user_me(token) ==
    /\ LET auth == get_current_user(token, {})
       IN IF auth.status # 200
          THEN /\ resp' = AuthResp("deactivate_user_me", token, {},
                                   auth.status, auth.detail, NoId)
               /\ UNCHANGED users
          ELSE /\ users' = deactivate_user(auth.user_id)
               /\ resp' = AuthResp("deactivate_user_me", token, {}, 204, "",
                                   auth.user_id)
    /\ UNCHANGED <<now, roleTables, otps, nextOtpId, blacklist, task>>

(***************************************************************************)
(* PUT /me/password: get_current_user, then the route returns               *)
(* service.update_user(current_user.id, password_update).  update_user is   *)
(* a coroutine function and the route does not await it: the coroutine is   *)
(* never run, FastAPI fails to serialise it as the response model User and  *)
(* answers 500.  No statement of UserService.update_user executes, so the   *)
(* users table is not written.                                             *)
(***************************************************************************)
PwOther == [text |-> "N3wPassw0rd", len |-> 11, digit |-> TRUE, upper |-> TRUE]
NewPasswords == Passwords \cup {PwOther}

\* a password update that stores the new hash for any authenticated caller
update_user_password_me_ungated(token, old_password, new_password, password_confirm) ==
    /\ LET auth == get_current_user(token, {})
       IN IF auth.status # 200
          THEN /\ resp' = AuthResp("update_user_password_me", token, {},
                                   auth.status, auth.detail, NoId)
               /\ UNCHANGED users
          ELSE /\ users' = {IF u.id = auth.user_id
                               THEN [u EXCEPT !.hashed_password =
                                        get_password_hash(new_password)]
                               ELSE u : u \in users}
               /\ resp' = AuthResp("update_user_password_me", token, {}, 200,
                                   "", auth.user_id)
    /\ UNCHANGED <<now, roleTables, otps, nextOtpId, blacklist, task>>

update_user_password_me(token, old_password, new_password, password_confirm) ==
    /\ LET auth == get_current_user(token, {})
       IN IF auth.status # 200
          THEN resp' = AuthResp("update_user_password_me", token, {},
                                auth.status, auth.detail, NoId)
          ELSE resp' = AuthResp("update_user_password_me", token, {}, 500,
                                "Internal Server Error", auth.user_id)
    /\ UNCHANGED <<now, users, roleTables, otps, nextOtpId, blacklist, task>>

UpdateUserPasswordMe ==
    \E token \in Tokens, old_password \in Passwords,
       new_password \in NewPasswords, password_confirm \in NewPasswords :
        update_user_password_me(token, old_password, new_password,
                                password_confirm)

(***************************************************************************)
(* Passwords: registration of a@ntt.com, its reset_password OTPs and the   *)
(* password route, served one at a time.                                   *)
(***************************************************************************)
CreateAndSendReset == create_otp_and_send(EmailA, RESET_PASSWORD)

VerifyReset == \E code \in Codes : verify_otp(EmailA, code, RESET_PASSWORD)

NextPassword ==
    \/ Tick
    \/ RegisterGood
    \/ CreateAndSendReset
    \/ VerifyReset
    \/ UpdateUserPasswordMe

SpecPassword == Init /\ [][NextPassword]_vars

(***************************************************************************)
(* Accounts: registration, login, requests with a token and deactivation,  *)
(* served one at a time.                                                   *)
(***************************************************************************)
DeactivateUserMe == \E token \in Tokens : deactivate_user_me(token)

NextAccount ==
    \/ Tick
    \/ Register
    \/ Login
    \/ AuthenticatedRequest
    \/ DeactivateUserMe

SpecAccount == Init /\ [][NextAccount]_vars

(***************************************************************************)
(* create_otp_and_send as the steps of one worker: requests of different   *)
(* workers interleave between the database operations of the handler.      *)
(***************************************************************************)
InFlight == {w \in Workers : task[w].pc # "idle"}

CreateBegin(w, email, type) ==
    /\ task[w].pc = "idle"
    /\ nextOtpId + Cardinality(InFlight) <= MaxOtps
    /\ IF AlreadyVerified(email, type)
       THEN /\ resp' = OtpResp("create_otp_and_send", email, "", type, 400,
                               "Email already verified", FALSE, NoId)
            /\ UNCHANGED task
       ELSE /\ task' = [task EXCEPT ![w] =
                          [Idle EXCEPT !.pc = "invalidate", !.email = email,
                                       !.type = type,
                                       !.user_id = OtpUserId(email)]]
            /\ UNCHANGED resp
    /\ UNCHANGED <<now, users, roleTables, otps, nextOtpId, blacklist>>

CreateInvalidate(w) ==
    /\ task[w].pc = "invalidate"
    /\ otps' = invalidate_previous_otps(task[w].email, task[w].type)
    /\ task' = [task EXCEPT ![w].pc = "create"]
    /\ UNCHANGED <<now, users, roleTables, nextOtpId, blacklist, resp>>

CreateInsert(w) ==
    /\ task[w].pc = "create"
    /\ \/ \* OTP.generate_code / get_expiry_time raises
          /\ resp' = OtpResp("create_otp_and_send", task[w].email, "",
                             task[w].type, 500, "Failed to generate OTP code",
                             FALSE, NoId)
          /\ task' = [task EXCEPT ![w] = Idle]
          /\ UNCHANGED <<otps, nextOtpId>>
       \/ \E code \in Codes :
          /\ otps' = otps \cup {NewOtp(nextOtpId, task[w].user_id,
                                       task[w].email, code, task[w].type)}
          /\ nextOtpId' = nextOtpId + 1
          /\ task' = [task EXCEPT ![w].pc = "send", ![w].code = code,
                                  ![w].otp_id = nextOtpId]
          /\ UNCHANGED resp
    /\ UNCHANGED <<now, users, roleTables, blacklist>>

CreateSend(w) ==
    /\ task[w].pc = "send"
    /\ \E out \in EmailOutcomes(task[w].type) :
          resp' = OtpResp("create_otp_and_send", task[w].email, task[w].code,
                          task[w].type, out.status, out.detail, FALSE,
                          task[w].otp_id)
    /\ task' = [task EXCEPT ![w] = Idle]
    /\ UNCHANGED <<now, users, roleTables, otps, nextOtpId, blacklist>>

ConcBegin ==
    \E w \in Workers, email \in OtpEmails, type \in OTPType :
        CreateBegin(w, email, type)

ConcInvalidate == \E w \in Workers : CreateInvalidate(w)

ConcInsert == \E w \in Workers : CreateInsert(w)

ConcSend == \E w \in Workers : CreateSend(w)

NextConc == Tick \/ ConcBegin \/ ConcInvalidate \/ ConcInsert \/ ConcSend

SpecConc == Init /\ [][NextConc]_vars

(***************************************************************************)
(* verify_otp as the steps of one worker, next to the cleanup job: the     *)
(* SELECT of get_valid_otp, then the UPDATE and commit of mark_as_used.    *)
(* The clock and the requests of other processes move between the two.     *)
(***************************************************************************)
VerifyRead(w, email, code, type) ==
    /\ task[w].pc = "idle"
    /\ IF get_valid_otp(email, code, type) = {}
       THEN /\ \E out \in VerifyFailures(email, type) :
                  resp' = OtpResp("verify_otp", email, code, type, out.status,
                                  out.detail, FALSE, NoId)
            /\ UNCHANGED task
       ELSE /\ \E otp \in get_valid_otp(email, code, type) :
                  task' = [task EXCEPT ![w] =
                             [Idle EXCEPT !.pc = "mark", !.email = email,
                                          !.type = type, !.code = code,
                                          !.otp_id = otp.id]]
            /\ UNCHANGED resp
    /\ UNCHANGED <<now, users, roleTables, otps, nextOtpId, blacklist>>

\* otp.is_used = 1; commit(): the UPDATE of a row that was deleted meanwhile
\* matches no row, the session raises StaleDataError and the route answers 500
VerifyMark(w) ==
    /\ task[w].pc = "mark"
    /\ IF \E o \in otps : o.id = task[w].otp_id
       THEN /\ otps' = mark_as_used(otps, [id |-> task[w].otp_id])
            /\ resp' = OtpResp("verify_otp", task[w].email, task[w].code,
                               task[w].type, 200,
                               "OTP code verified successfully", TRUE,
                               task[w].otp_id)
       ELSE /\ resp' = OtpResp("verify_otp", task[w].email, task[w].code,
                               task[w].type, 500, "Failed to verify OTP code",
                               FALSE, task[w].otp_id)
            /\ UNCHANGED otps
    /\ task' = [task EXCEPT ![w] = Idle]
    /\ UNCHANGED <<now, users, roleTables, nextOtpId, blacklist>>

ConcVerifyRead ==
    \E w \in Workers, email \in OtpEmails, code \in Codes, type \in OTPType :
        VerifyRead(w, email, code, type)

ConcVerifyMark == \E w \in Workers : VerifyMark(w)

NextCleanup ==
    \/ Tick
    \/ CreateAndSend
    \/ ConcVerifyRead
    \/ ConcVerifyMark
    \/ cleanup_expired_otps

SpecCleanup == Init /\ [][NextCleanup]_vars

(***************************************************************************)
(* Revocation.  TokenBlacklistService.blacklist_token called on its own,   *)
(* and POST /auth/logout as the steps of one worker: the reads             *)
(* (get_current_user, jwt.decode, is_blacklisted), then the INSERT and     *)
(* commit of add_to_blacklist.                                             *)
(***************************************************************************)
blacklist_token(token) ==
    /\ IF ~jwt_decode_ok(token)
       THEN /\ resp' = AuthResp("blacklist_token", token, {}, 400,
                                "Invalid token", NoId)
            /\ UNCHANGED blacklist
       ELSE IF token.exp = NoExp
       THEN /\ resp' = AuthResp("blacklist_token", token, {}, 400,
                                "Invalid token: no expiration", NoId)
            /\ UNCHANGED blacklist
       ELSE /\ blacklist' = IF is_blacklisted(token) THEN blacklist
                            ELSE add_to_blacklist(token, token.exp)
            /\ resp' = AuthResp("blacklist_token", token, {}, 200, "", NoId)
    /\ UNCHANGED <<now, users, roleTables, otps, nextOtpId, task>>

\* a token_blacklist table that accepts any row
TokenIsFree_any(token) == TRUE

\* the table token_blacklist holds a token string at most once: the INSERT
\* of a second row for a stored token is refused with IntegrityError
TokenIsFree(token) == \A b \in blacklist : b.token # token

LogoutBegin(w, token) ==
    /\ task[w].pc = "idle"
    /\ LET auth == get_current_user(token, {})
       IN IF auth.status # 200
          THEN /\ resp' = AuthResp("logout", token, {}, auth.status,
                                   auth.detail, NoId)
               /\ UNCHANGED task
          ELSE IF token.exp = NoExp
          THEN /\ resp' = AuthResp("logout", token, {}, 400,
                                   "Invalid token: no expiration",
                                   auth.user_id)
               /\ UNCHANGED task
          ELSE IF is_blacklisted(token)
          THEN /\ resp' = AuthResp("logout", token, {}, 200,
                                   "Successfully logged out", auth.user_id)
               /\ UNCHANGED task
          ELSE /\ task' = [task EXCEPT ![w] =
                             [Idle EXCEPT !.pc = "insert", !.token = token,
                                          !.user_id = auth.user_id]]
               /\ UNCHANGED resp
    /\ UNCHANGED <<now, users, roleTables, otps, nextOtpId, blacklist>>

LogoutInsert(w) ==
    /\ task[w].pc = "insert"
    /\ IF TokenIsFree(task[w].token)
       THEN /\ blacklist' = add_to_blacklist(task[w].token, task[w].token.exp)
            /\ resp' = AuthResp("logout", task[w].token, {}, 200,
                                "Successfully logged out", task[w].user_id)
       ELSE /\ resp' = AuthResp("logout", task[w].token, {}, 500,
                                "Internal Server Error", task[w].user_id)
            /\ UNCHANGED blacklist
    /\ task' = [task EXCEPT ![w] = Idle]
    /\ UNCHANGED <<now, users, roleTables, otps, nextOtpId>>

BlacklistToken == \E token \in Tokens : blacklist_token(token)

ConcLogoutBegin == \E w \in Workers, token \in Tokens : LogoutBegin(w, token)

ConcLogoutInsert == \E w \in Workers : LogoutInsert(w)

NextRevoke ==
    \/ Tick
    \/ BlacklistToken
    \/ ConcLogoutBegin
    \/ ConcLogoutInsert
    \/ cleanup_expired_tokens

SpecRevoke == Init /\ [][NextRevoke]_vars

(***************************************************************************)
(* POST /auth/register as the steps of one worker process: the checks of   *)
(* UserService.create_user up to the lookup of the email, then the INSERT  *)
(* of UserRepository.create_user.  Requests of different worker processes  *)
(* interleave between the two.                                             *)
(***************************************************************************)
\* a users table that accepts any row
EmailIsFree_any(email) == TRUE

\* User.email is declared unique: the INSERT of a second row with a stored
\* email is refused with IntegrityError
EmailIsFree(email) == \A u \in users : u.email # email

RegisterCheck(w, email, password, password_confirm) ==
    /\ task[w].pc = "idle"
    /\ IF ~validate_email_domain(email)
       THEN /\ resp' = UserResp("register", email, 400,
                                "Email domain not allowed", NoId)
            /\ UNCHANGED task
       ELSE IF ~validate_password_complexity(password)
       THEN /\ resp' = UserResp("register", email, 400,
                        "Password does not meet complexity requirements", NoId)
            /\ UNCHANGED task
       ELSE IF password # password_confirm
       THEN /\ resp' = UserResp("register", email, 400,
                        "Password and password confirmation do not match", NoId)
            /\ UNCHANGED task
       ELSE IF UsersByEmail(email) # {}
       THEN /\ resp' = UserResp("register", email, 400,
                                "Email already registered", NoId)
            /\ UNCHANGED task
       ELSE /\ task' = [task EXCEPT ![w] =
                          [Idle EXCEPT !.pc = "insert_user", !.email = email,
                                       !.password = password]]
            /\ UNCHANGED resp
    /\ UNCHANGED <<now, users, roleTables, otps, nextOtpId, blacklist>>

\* db.add(db_user); db.commit(): an IntegrityError is not an HTTPException,
\* so AuthService.register_user answers 500 "Failed to register user"
RegisterInsert(w) ==
    /\ task[w].pc = "insert_user"
    /\ IF EmailIsFree(task[w].email)
       THEN /\ Cardinality(users) < MaxConcUsers
            /\ users' = users \cup
                   {[id |-> NextUserId, email |-> task[w].email,
                     hashed_password |-> get_password_hash(task[w].password),
                     is_verified |-> FALSE, is_active |-> TRUE,
                     role_id |-> DefaultRoleId, last_active |-> now]}
            /\ resp' = UserResp("register", task[w].email, 201, "", NextUserId)
       ELSE /\ resp' = UserResp("register", task[w].email, 500,
                                "Failed to register user", NoId)
            /\ UNCHANGED users
    /\ task' = [task EXCEPT ![w] = Idle]
    /\ UNCHANGED <<now, roleTables, otps, nextOtpId, blacklist>>

ConcRegisterCheck ==
    \E w \in Workers, email \in Emails, password \in Passwords,
       password_confirm \in Passwords :
        RegisterCheck(w, email, password, password_confirm)

ConcRegisterInsert == \E w \in Workers : RegisterInsert(w)

NextRegister == Tick \/ ConcRegisterCheck \/ ConcRegisterInsert

SpecRegister == Init /\ [][NextRegister]_vars

(***************************************************************************)
(* Logout and the blacklist cleanup job, served one at a time.             *)
(***************************************************************************)
\* tokens of the seeded user that expire before the others
ShortTokens == {[sub |-> "1", exp |-> 1, signed |-> TRUE]}

LogoutShort == \E token \in ShortTokens : logout(token)

NextLogout ==
    \/ Tick
    \/ RegisterGood
    \/ Logout
    \/ LogoutShort
    \/ cleanup_expired_tokens

SpecLogout == Init /\ [][NextLogout]_vars

(***************************************************************************)
(* RoleService and PermissionService: create, lookup and delete, served    *)
(* one at a time.                                                          *)
(***************************************************************************)
RoleNames == {"Super Admin", "User", "Viewer"}

\* a lookup of a role by name that never finds a row
get_role_by_name_none(role_name) == {}

get_role_by_name(role_name) == {r \in roles : r.role_name = role_name}

get_permission_by_name(permission_name) ==
    {q \in permissions : q.permission_name = permission_name}

NextRoleId ==
    IF roles = {} THEN 1
    ELSE 1 + (CHOOSE i \in {r.id : r \in roles} : \A r \in roles : r.id <= i)

NextPermissionId ==
    IF permissions = {} THEN 1
    ELSE 1 + (CHOOSE i \in {q.id : q \in permissions} :
                 \A q \in permissions : q.id <= i)

CrudResp(op, name, id, status, detail) ==
    [NoResp EXCEPT !.op = op, !.name = name, !.id = id, !.status = status,
                   !.detail = detail]

create_role(role_name) ==
    /\ IF get_role_by_name(role_name) # {}
       THEN /\ resp' = CrudResp("create_role", role_name, NoId, 400,
                                "Role already exists")
            /\ UNCHANGED roles
       ELSE /\ NextRoleId <= MaxRoleId
            /\ roles' = roles \cup {[id |-> NextRoleId, role_name |-> role_name]}
            /\ resp' = CrudResp("create_role", role_name, NextRoleId, 201, "")
    /\ UNCHANGED <<now, users, permissions, permission_roles, otps, nextOtpId,
                   blacklist, task>>

read_role(role_id) ==
    /\ resp' = IF get_role(role_id) = {}
               THEN CrudResp("read_role", "", role_id, 404, "Role not found")
               ELSE CrudResp("read_role",
                             (CHOOSE r \in get_role(role_id) : TRUE).role_name,
                             role_id, 200, "")
    /\ UNCHANGED <<now, users, roleTables, otps, nextOtpId, blacklist, task>>

\* RoleService.delete_role, as delete_role above without the route's guard
service_delete_role(role_id) ==
    /\ IF get_role(role_id) = {}
       THEN /\ resp' = CrudResp("delete_role", "", role_id, 404,
                                "Role not found")
            /\ UNCHANGED <<users, roles, permission_roles>>
       ELSE /\ roles' = roles \ get_role(role_id)
            /\ permission_roles' =
                   {pr \in permission_roles : pr.role_id # role_id}
            /\ users' = {IF u.role_id = role_id
                            THEN [u EXCEPT !.role_id = NoId] ELSE u
                         : u \in users}
            /\ resp' = CrudResp("delete_role", "", role_id, 204, "")
    /\ UNCHANGED <<now, permissions, otps, nextOtpId, blacklist, task>>

create_permission(permission_name) ==
    /\ IF get_permission_by_name(permission_name) # {}
       THEN /\ resp' = CrudResp("create_permission", permission_name, NoId,
                                400, "Permission already exists")
            /\ UNCHANGED permissions
       ELSE /\ NextPermissionId <= MaxPermissionId
            /\ permissions' = permissions \cup
                   {[id |-> NextPermissionId,
                     permission_name |-> permission_name]}
            /\ resp' = CrudResp("create_permission", permission_name,
                                NextPermissionId, 201, "")
    /\ UNCHANGED <<now, users, roles, permission_roles, otps, nextOtpId,
                   blacklist, task>>

read_permission(permission_id) ==
    /\ resp' = IF get_permission(permission_id) = {}
               THEN CrudResp("read_permission", "", permission_id, 404,
                             "Permission not found")
               ELSE CrudResp("read_permission",
                             (CHOOSE q \in get_permission(permission_id) : TRUE)
                                 .permission_name,
                             permission_id, 200, "")
    /\ UNCHANGED <<now, users, roleTables, otps, nextOtpId, blacklist, task>>

\* db.delete(db_permission) also empties the permission's rows of the
\* secondary table permission_roles
delete_permission(permission_id) ==
    /\ IF get_permission(permission_id) = {}
       THEN /\ resp' = CrudResp("delete_permission", "", permission_id, 404,
                                "Permission not found")
            /\ UNCHANGED <<permissions, permission_roles>>
       ELSE /\ permissions' = permissions \ get_permission(permission_id)
            /\ permission_roles' =
                   {pr \in permission_roles : pr.permission_id # permission_id}
            /\ resp' = CrudResp("delete_permission", "", permission_id, 204, "")
    /\ UNCHANGED <<now, users, roles, otps, nextOtpId, blacklist, task>>

CreateRole == \E role_name \in RoleNames : create_role(role_name)

ReadRole == \E role_id \in 1..MaxRoleId : read_role(role_id)

ServiceDeleteRole == \E role_id \in 1..MaxRoleId : service_delete_role(role_id)

CreatePermission ==
    \E permission_name \in PermissionNames : create_permission(permission_name)

ReadPermission ==
    \E permission_id \in 1..MaxPermissionId : read_permission(permission_id)

DeletePermission ==
    \E permission_id \in 1..MaxPermissionId : delete_permission(permission_id)

NextCrud ==
    \/ CreateRole
    \/ ReadRole
    \/ ServiceDeleteRole
    \/ CreatePermission
    \/ ReadPermission
    \/ DeletePermission

SpecCrud == Init /\ [][NextCrud]_vars

(***************************************************************************)
(* The OTP engine asked about two email addresses.                         *)
(***************************************************************************)
VerifyEmails == {EmailA, AdminEmail}

CreateAndSendAny ==
    \E email \in VerifyEmails, type \in OTPType :
        create_otp_and_send(email, type)

VerifyAny ==
    \E email \in VerifyEmails, code \in Codes, type \in OTPType :
        verify_otp(email, code, type)

NextVerify == Tick \/ CreateAndSendAny \/ VerifyAny

SpecVerify == Init /\ [][NextVerify]_vars

(***************************************************************************)
(* Properties of the OTP engine.                                           *)
(***************************************************************************)
IsValidOtp(o) == o.is_used = 0 /\ o.expires_at > now

ValidOtpsOf(email, type) ==
    {o \in otps : o.email = email /\ o.type = type /\ IsValidOtp(o)}

\* the rows get_valid_otp would return in the state after the step
ValidAfter(email, code, type) ==
    {o \in otps' : /\ o.email = email
                   /\ o.code = code
                   /\ o.type = type
                   /\ o.is_used = 0
                   /\ o.expires_at > now'}

\* C2: with requests served one at a time, every (email, purpose) pair has
\* at most one OTP that is both unused and unexpired.
C2_AtMostOneValidOtp ==
    \A email \in OtpEmails, type \in OTPType :
        Cardinality(ValidOtpsOf(email, type)) <= 1

\* a second create_otp_and_send for a pair has invalidated the first OTP
C2_Witness ==
    \E o1 \in otps, o2 \in otps :
        /\ o1.email = o2.email /\ o1.type = o2.type /\ o1.id < o2.id
        /\ o1.is_used = 1 /\ o1.expires_at > now
        /\ IsValidOtp(o2)

\* C3: when two createAndSend calls for the same pair interleave their
\* invalidate and insert steps and both complete, at most one unused,
\* unexpired OTP exists for the pair.
C3_ConcurrentCreateOneValid ==
    (\A w \in Workers : task[w].pc = "idle")
    => \A email \in OtpEmails, type \in OTPType :
          Cardinality(ValidOtpsOf(email, type)) <= 1

\* C4: after two successive createAndSend calls for a pair, verify with the
\* first code answers valid=false "OTP code already used" and verify with
\* the second code answers valid=true.
C4_FirstCodeAlreadyUsed ==
    \A o1 \in otps, o2 \in otps :
        ( /\ o1.email = o2.email /\ o1.type = o2.type
          /\ o2.id = o1.id + 1
          /\ o1.code # o2.code
          /\ o2.expires_at > now
          /\ resp.op = "verify_otp"
          /\ resp.email = o1.email /\ resp.type = o1.type )
        => /\ (resp.code = o1.code /\ o2.is_used = 0)
                => (~resp.valid /\ resp.detail = "OTP code already used")
           /\ (resp.code = o2.code /\ o2.is_used = 1) => resp.valid

C6_VerifyEffects ==
    (resp.op = "verify_otp" /\ resp.valid)
    => /\ \A o \in otps : o.id = resp.otp_id => o.is_used = 1
       /\ resp.type = REGISTER
             => \A u \in UsersByEmail(resp.email) : u.is_verified

\* C7: a successful verify for purpose register applies both writes or
\* neither: no state has the OTP used and the user still unverified, or
\* the user verified and the OTP still unused.
C7_VerifyAtomic ==
    \A o \in otps, u \in users :
        ( /\ resp.op = "verify_otp" /\ resp.status = 200
          /\ resp.type = REGISTER
          /\ o.id = resp.otp_id /\ u.email = resp.email )
        => (o.is_used = 1 <=> u.is_verified)

\* C8: a verify that answers valid=false changes no OTP row and no user.
C8_FailedVerifyChangesNothing ==
    [][(resp'.op = "verify_otp" /\ resp'.status = 400 /\ ~resp'.valid)
        => (otps' = otps /\ users' = users)]_vars

\* verify refused a code while an unused OTP of the pair was stored
C8_Witness ==
    /\ resp.op = "verify_otp" /\ resp.status = 400 /\ ~resp.valid
    /\ \E o \in otps : o.email = resp.email /\ o.type = resp.type
                       /\ o.is_used = 0
    /\ \E u \in users : u.email = resp.email

(***************************************************************************)
(* Properties of tokens and of the scope check.                            *)
(***************************************************************************)
\* the permission names granted by the role a user record points to
GrantedNames(user) ==
    {p.permission_name : p \in
        {q \in permissions :
            /\ \E r \in roles : r.id = user.role_id
            /\ \E pr \in permission_roles :
                  pr.role_id = user.role_id /\ pr.permission_id = q.id}}

\* the user a token names, for a token whose subject is the id of a user
TokenUser(token) == CHOOSE u \in users : u.id = IntOfStr(token.sub)

NamesUser(token) == \E u \in users : u.id = IntOfStr(token.sub)

\* C1: once logout has blacklisted a token, get_current_user rejects every
\* request that carries it, also while the token is unexpired and its user
\* exists.
C1_RevokedTokenRejected ==
    (resp.op = "get_current_user" /\ is_blacklisted(resp.token))
    => resp.status = 401

\* C9: the token that login issues for user id decodes to that id and is
\* accepted by get_current_user with no required scope while it is
\* unexpired, not blacklisted and the user exists.
C9_IssuedTokenAccepted ==
    (resp.op = "login" /\ resp.user_id # NoId)
    => /\ resp.status = 200
       /\ resp.token.signed
       /\ IntOfStr(resp.token.sub) = resp.user_id
       /\ (jwt_decode_ok(resp.token) /\ ~is_blacklisted(resp.token))
             => get_current_user(resp.token, {}).user_id = resp.user_id

\* C10: for a valid token of an existing user, get_current_user with a
\* non-empty set of required scopes returns the user exactly when one of
\* the scopes is a permission name of the user's current role and answers
\* 403 otherwise; with no required scope it returns the user unchecked.
C10_ScopeCheck ==
    ( /\ resp.op = "get_current_user"
      /\ jwt_decode_ok(resp.token)
      /\ NamesUser(resp.token) )
    => IF resp.scopes = {}
          \/ resp.scopes \cap GrantedNames(TokenUser(resp.token)) # {}
       THEN resp.status = 200 /\ resp.user_id = TokenUser(resp.token).id
       ELSE resp.status = 403 /\ resp.user_id = NoId

\* a request demanding two scopes was let through on one of them
C10_Witness ==
    /\ resp.op = "get_current_user" /\ resp.status = 200
    /\ jwt_decode_ok(resp.token) /\ NamesUser(resp.token)
    /\ \E held \in resp.scopes, missing \in resp.scopes :
          /\ held \in GrantedNames(TokenUser(resp.token))
          /\ missing \notin GrantedNames(TokenUser(resp.token))

\* the name of a stored permission
PermissionName(permission_id) ==
    (CHOOSE q \in permissions : q.id = permission_id).permission_name

\* the tokens get_current_user resolves to a user of the given role
HoldersOf(role_id) ==
    {t \in Tokens : /\ jwt_decode_ok(t)
                    /\ NamesUser(t)
                    /\ TokenUser(t).role_id = role_id}

\* C11: a permission change takes effect on the next request made with the
\* same token: after an authorised grant of a permission to an existing role
\* every token of a user of that role is accepted on a route requiring the
\* permission, and after an authorised removal it is refused with 403.
C11_PermissionChangeNextRequest ==
    [][\A admin \in Tokens, role_id \in {1, 3}, permission_id \in {1, 2} :
        ( /\ get_current_user(admin, {"manage_roles"}).status = 200
          /\ get_role(role_id) # {}
          /\ get_permission(permission_id) # {} )
        => /\ add_permission_to_role(admin, role_id, permission_id)
                => \A t \in HoldersOf(role_id) :
                      (get_current_user(t, {PermissionName(permission_id)})
                          .status = 200)'
           /\ remove_permission_from_role(admin, role_id, permission_id)
                => \A t \in HoldersOf(role_id) :
                      (get_current_user(t, {PermissionName(permission_id)})
                          .status = 403)']_vars

\* whether the stored tables assign the named permission to the user's role
Assigned(user_id, permission_name) ==
    \E u \in users, r \in roles, pr \in permission_roles, q \in permissions :
        /\ u.id = user_id /\ r.id = u.role_id
        /\ pr.role_id = r.id /\ pr.permission_id = q.id
        /\ q.permission_name = permission_name

\* C12: check_user_permission(user_id, name) is true exactly when the user
\* exists, has a role and name is the name of a permission assigned to that
\* role in the current tables, in every state the role routes can reach; the
\* answer of a call agrees with the tables it was made on.
C12_HasPermissionLive ==
    /\ \A user_id \in 1..3, permission_name \in PermissionNames :
          check_user_permission(user_id, permission_name)
              <=> Assigned(user_id, permission_name)
    /\ resp.op = "check_user_permission"
          => (resp.valid <=> Assigned(resp.user_id, resp.detail))

\* the call answered false for a permission that was removed from the role
\* of an existing user who still has that role
C12_Witness ==
    /\ resp.op = "check_user_permission" /\ ~resp.valid
    /\ resp.user_id = 1 /\ resp.detail = "manage_roles"
    /\ \E u \in users : u.id = 1 /\ u.role_id = SuperAdminRoleId
    /\ get_role(SuperAdminRoleId) # {}
    /\ [role_id |-> 1, permission_id |-> 1] \notin permission_roles

(***************************************************************************)
(* Preconditions of create_otp_and_send.                                   *)
(***************************************************************************)
\* C13: create_otp_and_send(email, reset_password) for an email without a
\* user record answers 404, marks no OTP used and stores no new OTP.
C13_ResetUnknownEmailNotFound ==
    [][\A email \in OtpEmails :
        (create_otp_and_send(email, RESET_PASSWORD) /\ UsersByEmail(email) = {})
        => /\ resp'.status = 404
           /\ otps' = otps
           /\ nextOtpId' = nextOtpId]_vars

\* C14: create_otp_and_send(email, register) needs an existing, unverified
\* user: for a verified user it answers 400 "Email already verified", for an
\* email without a user it stores no OTP, and in both cases the OTP table is
\* left as it was.
C14_RegisterNeedsUnverifiedUser ==
    [][\A email \in OtpEmails :
        create_otp_and_send(email, REGISTER)
        => /\ (\E u \in UsersByEmail(email) : u.is_verified)
                => /\ resp'.status = 400
                   /\ resp'.detail = "Email already verified"
                   /\ otps' = otps
           /\ UsersByEmail(email) = {}
                => /\ resp'.status # 200
                   /\ otps' = otps
                   /\ nextOtpId' = nextOtpId]_vars

(***************************************************************************)
(* The answer of a failed verify.                                          *)
(***************************************************************************)
\* the OTPs stored for a pair, and the one inserted last (ids autoincrement)
OtpsOf(email, type) == {o \in otps : o.email = email /\ o.type = type}

MostRecentOtp(email, type) ==
    CHOOSE o \in OtpsOf(email, type) : \A p \in OtpsOf(email, type) : p.id <= o.id

ExpectedFailure(email, type) ==
    IF OtpsOf(email, type) = {} THEN "Invalid OTP code"
    ELSE IF MostRecentOtp(email, type).is_used = 1 THEN "OTP code already used"
    ELSE IF MostRecentOtp(email, type).expires_at < now THEN "OTP code expired"
    ELSE "Invalid OTP code"

\* C15: when verify finds no valid OTP for its arguments it answers
\* valid=false with the message decided by the most recently created OTP of
\* the pair: "already used" if that OTP is used, "expired" if it is unused
\* and past its expiry, "invalid code" otherwise or when the pair has none.
C15_FailureMessage ==
    [][\A email \in OtpEmails, code \in Codes, type \in OTPType :
        (verify_otp(email, code, type) /\ get_valid_otp(email, code, type) = {})
        => /\ ~resp'.valid
           /\ resp'.status = 400
           /\ resp'.detail = ExpectedFailure(email, type)]_vars

(***************************************************************************)
(* Properties of registration, login and deactivation.                     *)
(***************************************************************************)
WithEmail(table, email) == {u \in table : u.email = email}

C17_LoginDoesNotRevealAccounts ==
    [][\A email \in Emails, password \in Passwords :
        ( /\ login(email, password)
          /\ \A u \in WithEmail(users, email) :
                u.hashed_password # get_password_hash(password) )
        => /\ resp'.status = 401
           /\ resp'.detail = "Incorrect email or password"]_vars

\* C18: a deactivated user is rejected at authentication: login with the
\* correct password is refused, and get_current_user refuses a token whose
\* user has is_active = false.
C18_InactiveUserRejected ==
    [][/\ \A email \in Emails, password \in Passwords :
            ( /\ login(email, password)
              /\ \E u \in WithEmail(users, email) :
                    /\ ~u.is_active
                    /\ u.hashed_password = get_password_hash(password) )
            => resp'.status # 200
       /\ \A token \in Tokens, scopes \in ScopeSets :
            ( /\ authenticated_request(token, scopes)
              /\ \E u \in users : u.id = IntOfStr(token.sub) /\ ~u.is_active )
            => resp'.status \in {401, 403} /\ resp'.user_id = NoId]_vars

(***************************************************************************)
(* The used flag and the cleanup of expired OTPs.                          *)
(***************************************************************************)
\* C19: the used flag of an OTP is monotonic: no step turns a stored OTP
\* that is marked used, by verify or by the invalidation of
\* create_otp_and_send, back to unused.
C19_UsedIsMonotonic ==
    [][\A o \in otps : o.is_used = 1
          => \A p \in otps' : p.id = o.id => p.is_used = 1]_vars

\* an OTP invalidated by a later request is still used after the later OTP
\* was verified
C19_Witness ==
    /\ resp.op = "verify_otp" /\ resp.valid
    /\ \E o1 \in otps, o2 \in otps :
          /\ o1.id < o2.id /\ o1.email = o2.email /\ o1.type = o2.type
          /\ o2.id = resp.otp_id
          /\ o1.is_used = 1 /\ o2.is_used = 1

\* C20: cleanup_expired_otps, interleaved in any way with verify, deletes
\* only OTPs whose expiry is in the past, never an OTP that get_valid_otp
\* would return at that moment, and turns no verify that matched an OTP
\* into an answer other than valid=true.
C20_CleanupSafeWithVerify ==
    [][/\ \A o \in otps :
            (\A p \in otps' : p.id # o.id)
            => /\ o.expires_at < now
               /\ o \notin get_valid_otp(o.email, o.code, o.type)
       /\ \A w \in Workers :
            (task[w].pc = "mark" /\ task'[w].pc = "idle")
            => (resp'.valid /\ resp'.status = 200)]_vars

(***************************************************************************)
(* Properties of the token blacklist.                                      *)
(***************************************************************************)
\* C21: in every reachable state the blacklist holds at most one entry per
\* token string, also when two logouts of the same token both pass the
\* already-blacklisted check before either inserts.
C21_OneEntryPerToken ==
    \A b1 \in blacklist, b2 \in blacklist : b1.token = b2.token => b1.id = b2.id

\* the second of two overlapping logouts of one token was refused its insert
C21_Witness ==
    /\ resp.op = "logout" /\ resp.status = 500
    /\ \E b \in blacklist : b.token = resp.token
    /\ \A w \in Workers : task[w].pc = "idle"

C23_DeleteRoleKeepsUsersInRoles ==
    [][\A token \in Tokens, role_id \in {1, 3} :
        delete_role(token, role_id)
        => /\ \A u \in users' :
                 u.role_id # NoId => \E r \in roles' : r.id = u.role_id
           /\ roles' # roles
                 => \A u \in users : u.role_id = role_id
                       => \E v \in users', r \in roles' :
                             v.id = u.id /\ r.id = v.role_id]_vars

\* C24: add_permission_to_role and remove_permission_from_role are
\* idempotent on an existing role: an authorised add answers without error
\* and leaves the pair assigned whether or not it was, an authorised remove
\* answers without error and leaves it unassigned, and neither touches
\* another pair.
C24_AddRemoveIdempotent ==
    [][\A token \in Tokens, role_id \in {1, 3}, permission_id \in {1, 2} :
        LET pair == [role_id |-> role_id, permission_id |-> permission_id]
        IN ( /\ get_current_user(token, {"manage_roles"}).status = 200
             /\ \E r \in roles : r.id = role_id
             /\ \E q \in permissions : q.id = permission_id )
           => /\ add_permission_to_role(token, role_id, permission_id)
                   => /\ resp'.status = 200
                      /\ permission_roles' = permission_roles \cup {pair}
              /\ remove_permission_from_role(token, role_id, permission_id)
                   => /\ resp'.status = 200
                      /\ permission_roles' = permission_roles \ {pair}]_vars

NamesUnique(table_roles, table_permissions) ==
    /\ \A r1 \in table_roles, r2 \in table_roles :
          r1.role_name = r2.role_name => r1.id = r2.id
    /\ \A q1 \in table_permissions, q2 \in table_permissions :
          q1.permission_name = q2.permission_name => q1.id = q2.id

C26_DispatchFailureKeepsOtp ==
    [][\A email \in OtpEmails, type \in OTPType :
         ( /\ create_otp_and_send(email, type)
           /\ resp'.otp_id # NoId
           /\ resp'.status # 200 )
         => /\ resp'.status = 500
            /\ \E o \in otps' :
                 /\ o.id = resp'.otp_id
                 /\ o.email = email /\ o.type = type /\ o.code = resp'.code
                 /\ o.is_used = 0
                 /\ o.expires_at > now'
                 /\ o \notin otps
            /\ \A o \in otps' :
                 (o.email = email /\ o.type = type /\ o.id # resp'.otp_id)
                 => o.is_used = 1]_vars

\* a failed dispatch has left its OTP valid beside an earlier OTP of the pair
\* that the same call had marked used
C26_Witness ==
    /\ resp.op = "create_otp_and_send"
    /\ resp.status = 500
    /\ resp.detail = "Failed to send OTP email"
    /\ \E o \in otps : o.id = resp.otp_id /\ o.is_used = 0 /\ o.expires_at > now
    /\ \E o \in otps : /\ o.id # resp.otp_id
                       /\ o.email = resp.email /\ o.type = resp.type
                       /\ o.is_used = 1

\* C27: invalidate-previous and insert-new commit as one unit: a
\* create_otp_and_send step that changes the OTP table also inserts the new
\* OTP, so no failure between the two leaves the prior OTPs of the pair used
\* with no new OTP stored.
C27_InvalidateAndInsertAtomic ==
    [][\A email \in OtpEmails, type \in OTPType :
         (create_otp_and_send(email, type) /\ otps' # otps)
         => /\ nextOtpId' = nextOtpId + 1
            /\ \E o \in otps' : o.id = nextOtpId /\ o.is_used = 0]_vars

\* C28: get_current_user gives one and the same 401 response, "Could not
\* validate credentials", for a token with a bad signature, an expired
\* token, a token whose subject is missing or is not an id, and a well-formed
\* token whose subject names no stored user.
C28_OneUnauthorizedResponse ==
    [][\A token \in Tokens, scopes \in ScopeSets :
         ( /\ authenticated_request(token, scopes)
           /\ \/ ~token.signed
              \/ token.exp # NoExp /\ token.exp < now
              \/ token.sub = ""
              \/ \A i \in DOMAIN Digits : Digits[i] # token.sub
              \/ \A u \in users :
                    u.id \in DOMAIN Digits => Digits[u.id] # token.sub )
         => /\ resp'.status = 401
            /\ resp'.detail = "Could not validate credentials"
            /\ resp'.user_id = NoId]_vars

\* a signed, unexpired token whose subject is an id that no user has was
\* answered 401
C28_Witness ==
    /\ resp.op = "get_current_user"
    /\ resp.status = 401
    /\ resp.detail = "Could not validate credentials"
    /\ resp.token.signed
    /\ resp.token.exp # NoExp /\ resp.token.exp >= now
    /\ resp.token.sub = "3"
    /\ \A u \in users : u.id # 3

\* C29: blacklist_token of a token that fails to decode (bad signature,
\* already expired) or that carries no exp claim is answered 400 and leaves
\* the blacklist unchanged.
C29_RevokeRejectsUndecodable ==
    [][\A token \in Tokens :
         ( /\ blacklist_token(token)
           /\ \/ ~token.signed
              \/ token.exp # NoExp /\ token.exp < now
              \/ token.exp = NoExp )
         => /\ resp'.status = 400
            /\ blacklist' = blacklist]_vars

\* an expired token was refused while the blacklist held an entry
C29_Witness ==
    /\ resp.op = "blacklist_token"
    /\ resp.status = 400
    /\ resp.detail = "Invalid token"
    /\ resp.token.signed
    /\ resp.token.exp # NoExp /\ resp.token.exp < now
    /\ blacklist # {}
    /\ \A b \in blacklist : b.token # resp.token

\* C30: cleanup_expired_tokens deletes exactly the blacklist entries whose
\* copied expiry has passed: every entry whose expiry is not yet past keeps
\* its place, every deleted entry belongs to a token that no longer decodes,
\* and no token that was rejected before the cleanup is accepted after it.
C30_CleanupKeepsLiveEntries ==
    [][cleanup_expired_tokens
       => /\ blacklist' \subseteq blacklist
          /\ \A b \in blacklist : b \in blacklist' <=> ~(b.expires_at < now)
          /\ \A b \in blacklist \ blacklist' : ~jwt_decode_ok(b.token)'
          /\ \A token \in Tokens \cup ShortTokens :
               get_current_user(token, {}).status # 200
               => (get_current_user(token, {}).status # 200)']_vars

\* a cleanup has deleted the expired first entry and kept a later entry whose
\* expiry is not yet past
C30_Witness ==
    /\ resp.op = "cleanup_expired_tokens"
    /\ \E b \in blacklist : b.id = 2 /\ b.expires_at >= now
    /\ \A b \in blacklist : b.id # 1

\* C31: verify_otp answers valid = TRUE only if, when it is called, a stored
\* OTP has exactly the email, code and type of the call, is unused and has
\* expires_at later than now; in particular a code issued for one email or
\* type does not verify under another email or type.
C31_VerifyMatchesAllThree ==
    [][\A email \in VerifyEmails, code \in Codes, type \in OTPType :
         verify_otp(email, code, type)
         => ( resp'.valid
              <=> \E o \in otps : /\ o.email = email
                                  /\ o.code = code
                                  /\ o.type = type
                                  /\ o.is_used = 0
                                  /\ o.expires_at > now )]_vars

\* a verify was refused although the same code is stored, unused and
\* unexpired, for another email with the same type
C31_Witness ==
    /\ resp.op = "verify_otp"
    /\ ~resp.valid
    /\ \E o \in otps : /\ o.code = resp.code
                       /\ o.type = resp.type
                       /\ o.email # resp.email
                       /\ o.is_used = 0
                       /\ o.expires_at > now

\* C32: a login whose credentials verify sets the user's last_active to the
\* time of the login, before the token is issued, and a login that fails on
\* an unknown email or a wrong password changes no user record and issues no
\* token.
C32_LoginTouchesLastActive ==
    [][\A email \in Emails, password \in Passwords :
         login(email, password)
         => IF \E u \in users : /\ u.email = email
                                /\ verify_password(password, u.hashed_password)
            THEN \A u \in users' : u.email = email => u.last_active = now
            ELSE /\ users' = users
                 /\ resp'.status # 200
                 /\ resp'.token = NoToken]_vars

\* the first check of the register order that the request fails, "" if none
FirstFailingCheck(email, password, password_confirm) ==
    IF email.domain \notin accepted_email_domains
    THEN "Email domain not allowed"
    ELSE IF ~(password.len >= 8 /\ password.digit /\ password.upper)
    THEN "Password does not meet complexity requirements"
    ELSE IF password # password_confirm
    THEN "Password and password confirmation do not match"
    ELSE IF \E u \in users : u.email = email
    THEN "Email already registered"
    ELSE ""

\* C33: self-serve register checks the email domain, then the password
\* complexity, then the confirmation match, then whether the email exists,
\* and reports the first check that fails; a failed register creates no
\* user and a successful one creates one user, unverified and active.
C33_RegisterCheckOrder ==
    [][\A email \in Emails, password \in Passwords,
          password_confirm \in Passwords :
         create_user(email, password, password_confirm)
         => IF FirstFailingCheck(email, password, password_confirm) # ""
            THEN /\ resp'.status = 400
                 /\ resp'.detail =
                        FirstFailingCheck(email, password, password_confirm)
                 /\ users' = users
            ELSE /\ resp'.status = 201
                 /\ users \subseteq users'
                 /\ Cardinality(users' \ users) = 1
                 /\ \A u \in users' \ users :
                      /\ u.email = email
                      /\ ~u.is_verified
                      /\ u.is_active
                      /\ u.id = resp'.user_id]_vars

\* a register for a stored email was refused for its confirmation mismatch,
\* the earlier of its two failing checks
C33_Witness ==
    /\ resp.op = "register"
    /\ resp.status = 400
    /\ resp.detail = "Password and password confirmation do not match"
    /\ \E u \in users : u.email = resp.email

\* C34: the stored password hash of a user changes only in a step of the
\* update-password route made by that user, whose old password verifies
\* against the stored hash and whose new password meets the complexity rule
\* and equals its confirmation; every other step, a request that fails one
\* of these gates included, leaves the hash as it was.  (The code has no
\* password operation gated by a verified reset_password OTP, so the old
\* password is the only gate the formula admits.)
C34_HashChangesOnlyWhenGated ==
    [][\A u \in users, v \in users' :
         (v.id = u.id /\ v.hashed_password # u.hashed_password)
         => \E token \in Tokens, old_password \in Passwords,
               new_password \in NewPasswords, password_confirm \in NewPasswords :
              /\ update_user_password_me(token, old_password, new_password,
                                         password_confirm)
              /\ get_current_user(token, {}).user_id = u.id
              /\ u.hashed_password = get_password_hash(old_password)
              /\ new_password.len >= 8 /\ new_password.digit
              /\ new_password.upper
              /\ new_password = password_confirm
              /\ v.hashed_password = get_password_hash(new_password)]_vars

\* the password route has answered a request of a registered user, after a
\* reset_password OTP of that user was verified, and the hash is the one
\* stored at registration
C34_Witness ==
    /\ resp.op = "update_user_password_me"
    /\ resp.user_id = 2
    /\ \E u \in users : /\ u.id = 2
                        /\ u.hashed_password = get_password_hash(PwGood)
                        /\ \E o \in otps : /\ o.email = u.email
                                           /\ o.type = RESET_PASSWORD
                                           /\ o.is_used = 1

\* C35: when two verify_otp calls with the same valid email, code and type
\* both read the OTP before either marks it used, at most one of them
\* answers valid = TRUE: after one of them has answered valid = TRUE for the
\* OTP, the other, which holds the same OTP from its earlier read, does not
\* answer valid = TRUE.
C35_ConcurrentVerifyOnce ==
    [][\A w \in Workers :
         ( /\ VerifyMark(w)
           /\ resp.op = "verify_otp" /\ resp.valid
           /\ resp.otp_id = task[w].otp_id )
         => ~resp'.valid]_vars

\* C36: when two register calls for one email both pass the check of an
\* existing email before either inserts, at most one user with that email
\* is stored afterwards and at most one of the calls reports success: every
\* insert step leaves the emails of users distinct, and a call answers 201
\* only if no user had the email when it inserted.
C36_ConcurrentRegisterOnce ==
    [][/\ \A u1 \in users', u2 \in users' :
            u1.email = u2.email => u1.id = u2.id
       /\ \A w \in Workers :
            (RegisterInsert(w) /\ resp'.status = 201)
            => /\ \A u \in users : u.email # task[w].email
               /\ Cardinality({u \in users' : u.email = task[w].email}) = 1
       /\ \A w \in Workers :
            (RegisterInsert(w) /\ \E u \in users : u.email = task[w].email)
            => resp'.status # 201 /\ users' = users]_vars

\* the second of two register calls that had both passed the check was
\* refused at its insert, and one user holds the email
C36_Witness ==
    /\ resp.op = "register"
    /\ resp.status = 500
    /\ resp.detail = "Failed to register user"
    /\ Cardinality({u \in users : u.email = resp.email}) = 1

\* C37: create_otp_and_send(email, type) changes only OTPs of that pair:
\* every OTP of another email or another type is left as it was, every row
\* it adds or rewrites belongs to the pair, and no user, role, permission
\* or blacklist record is changed.
C37_CreateAndSendFrame ==
    [][\A email \in VerifyEmails, type \in OTPType :
         create_otp_and_send(email, type)
         => /\ \A o \in otps : (o.email # email \/ o.type # type)
                               => o \in otps'
            /\ \A o \in otps' \ otps : o.email = email /\ o.type = type
            /\ users' = users
            /\ roles' = roles
            /\ permissions' = permissions
            /\ permission_roles' = permission_roles
            /\ blacklist' = blacklist]_vars

\* create_otp_and_send has stored the second OTP while the first, which
\* belongs to another email or type, is still unused
C37_Witness ==
    /\ resp.op = "create_otp_and_send"
    /\ resp.otp_id = 2
    /\ \E o \in otps : o.id = 2 /\ o.email = resp.email /\ o.type = resp.type
    /\ \E o \in otps : /\ o.id = 1
                       /\ (o.email # resp.email \/ o.type # resp.type)
                       /\ o.is_used = 0

\* C38: at the instant now equals the expires_at of an unused OTP, verify_otp
\* with the OTP's email, code and type answers valid = FALSE with
\* "Invalid OTP code" and leaves the row, and cleanup_expired_otps does not
\* delete the row.
C38_ExpiryBoundary ==
    [][/\ \A email \in OtpEmails, code \in Codes, type \in OTPType :
            ( /\ verify_otp(email, code, type)
              /\ \E o \in otps : /\ o.email = email /\ o.code = code
                                 /\ o.type = type
                                 /\ o.is_used = 0 /\ o.expires_at = now )
            => /\ ~resp'.valid
               /\ resp'.status = 400
               /\ resp'.detail = "Invalid OTP code"
               /\ otps' = otps
       /\ cleanup_expired_otps
          => \A o \in otps : (o.is_used = 0 /\ o.expires_at = now)
                             => o \in otps']_vars

====
